---- MODULE Spec2Model ----
(***************************************************************************)
(* Verification model of react-zoom-viewer: the zoom controller and its    *)
(* broadcast channel, the wheel throttle, and the ZoomViewer gesture /     *)
(* animation engine.                                                       *)
(*                                                                         *)
(* Units.  Zoom ratios of the controller are integers in thousandths       *)
(* (1000 = 1.0), so that toFixed(2) is a real rounding.  Times are in      *)
(* milliseconds.                                                           *)
(***************************************************************************)
EXTENDS Integers, Sequences, FiniteSets, TLC

(***************************************************************************)
(* Bounds of the model                                                     *)
(***************************************************************************)
MaxZooms == 3
MaxClock == 1250
MaxRenders == 2
MaxWheelEvents == 3
MaxGestures == 2
MaxListeners == 1
MaxSamples == 3
MaxFrames == 2
MaxZoomEvents == 2
MaxTimers == 2
MaxRetryCount == 32
MaxBroadcasts == 2
MaxDisabledZooms == 1
MaxTouches == 2

(***************************************************************************)
(* Input sets                                                              *)
(***************************************************************************)
Windows == {"w1", "w2"}
Receivers == {1, 2}
ZoomRatioSteps == {500, 333}
MinZoomRatios == {500, 504}
InitialZoomRatios == {1000, 1500}
StartClock == 1000
WheelGaps == {50, 149, 150, 200}
WheelDeltas == {-1, 1}
PressPoint == [x |-> 100, y |-> 100]
PressTimeStamp == 1000
PointerPoints == {[x |-> 100, y |-> 100], [x |-> 104, y |-> 100],
                  [x |-> 120, y |-> 100], [x |-> 140, y |-> 100],
                  [x |-> 100, y |-> 140], [x |-> 60, y |-> 98]}
PointerGaps == {10, 200}
DragPoints == {[x |-> 120, y |-> 100]}
DragGaps == {10}
SwipeGaps == {0, 10}
FrameGaps == {75, 150}
ViewerSizes == {[w |-> 200, h |-> 100]}
StartScales == {25, 100, 300}
ZoomEventRatios == {100, 400}
ResizeSizes == {[w |-> 200, h |-> 100], [w |-> 100, h |-> 100]}
FitSizes == {[w |-> 200, h |-> 100], [w |-> 100, h |-> 100],
             [w |-> 100, h |-> 200]}
FitDragPoints == {[x |-> 100, y |-> 120]}
CandidateOffsets == {-250, -40, -20, 0, 20, 40, 150}
ResolveContents == {[w |-> 100, h |-> 50], [w |-> 400, h |-> 200],
                    [w |-> 400, h |-> 50], [w |-> 100, h |-> 200]}
ResolverInsets == {0, 10, 30}
ResolverRatios == {[n |-> 1, d |-> 2], [n |-> 1, d |-> 1], [n |-> 2, d |-> 1]}
ZoomSteps == {100, 150}
ContentSizes == {[w |-> 100, h |-> 50], [w |-> 400, h |-> 200]}

VARIABLES
  zoomRatioStep,     \* useZoomController prop (thousandths)
  minZoomRatio,      \* useZoomController prop (thousandths)
  prevZoomRatioRef,  \* useZoomController's ref: the current ratio
  ctrlWindow,        \* useZoomController prop currentWindow
  ops,               \* history: the zoom directions called so far
  ratios,            \* history: the ratio after construction and each call
  events,            \* history: the CustomEvents dispatched, in order
  receivers,         \* useReceiveZoomEvent instances
  throttles,         \* lastTime of each throttle() closure created so far
  clock,             \* Date.getTime()
  wheelLog           \* history: the wheel events handled

ctrlVars == <<zoomRatioStep, minZoomRatio, prevZoomRatioRef, ctrlWindow,
              ops, ratios, events>>
wheelVars == <<throttles, clock, wheelLog>>

Max(a, b) == IF a >= b THEN a ELSE b
Min(a, b) == IF a <= b THEN a ELSE b
Abs(a) == IF a >= 0 THEN a ELSE -a

(***************************************************************************)
(* Number(x.toFixed(2)) on thousandths: round to the nearest hundredth,    *)
(* halves away from zero.                                                  *)
(***************************************************************************)
toFixed2(x) ==
  IF x >= 0 THEN ((x + 5) \div 10) * 10 ELSE -(((-x + 5) \div 10) * 10)

(***************************************************************************)
(* useZoomController.zoom: the next ratio                                  *)
(***************************************************************************)
nextZoomRatioNoFloor(prev, direction) ==
  toFixed2(prev + zoomRatioStep * (IF direction = "in" THEN 1 ELSE -1))
nextZoomRatio(prev, direction) ==
  toFixed2(Max(prev + zoomRatioStep * (IF direction = "in" THEN 1 ELSE -1),
               minZoomRatio))

(***************************************************************************)
(* useReceiveZoomEvent                                                     *)
(***************************************************************************)
NewReceiver ==
  [mounted |-> FALSE, currentWindow |-> "w1", callback |-> 0,
   listeners |-> {}, zoomRatioRef |-> 1000, prevZoomRatioRef |-> 1000,
   calls |-> <<>>]

\* handleZoom, run once for every listener the receiver has on window w
RECURSIVE handleZoomAll(_, _, _)
handleZoomDropsPrev(r, l, detail) ==
  [r EXCEPT !.zoomRatioRef = detail.zoomRatio,
            !.calls = Append(@, [callback |-> l.callback,
                                 zoomRatio |-> detail.zoomRatio,
                                 prevZoomRatio |-> detail.zoomRatio])]
handleZoom(r, l, detail) ==
  [r EXCEPT !.zoomRatioRef = detail.zoomRatio,
            !.prevZoomRatioRef = detail.prevZoomRatio,
            !.calls = Append(@, [callback |-> l.callback,
                                 zoomRatio |-> detail.zoomRatio,
                                 prevZoomRatio |-> detail.prevZoomRatio])]
handleZoomAll(r, ls, detail) ==
  IF ls = {} THEN r
  ELSE LET l == CHOOSE m \in ls : TRUE
       IN handleZoomAll(handleZoom(r, l, detail), ls \ {l}, detail)

\* currentWindow.dispatchEvent(paperZoomEvent): synchronous delivery
dispatchEvent(w, detail) ==
  [r \in Receivers |->
     handleZoomAll(receivers[r],
                   {l \in receivers[r].listeners : l.win = w}, detail)]

\* useZoomController.zoom(direction)
zoom(direction) ==
  LET prevZoomRatio == prevZoomRatioRef
      next == nextZoomRatio(prevZoomRatio, direction)
      detail == [zoomRatio |-> next, prevZoomRatio |-> prevZoomRatio]
  IN /\ Len(ops) < MaxZooms
     /\ prevZoomRatioRef' = next
     /\ ops' = Append(ops, direction)
     /\ ratios' = Append(ratios, next)
     /\ events' = Append(events, detail)
     /\ receivers' = dispatchEvent(ctrlWindow, detail)
     /\ UNCHANGED <<zoomRatioStep, minZoomRatio, ctrlWindow>>

zoomIn == zoom("in") /\ UNCHANGED wheelVars
zoomOut == zoom("out") /\ UNCHANGED wheelVars

\* the effect of useReceiveZoomEvent runs (mount, or a render with a new
\* onChangeZoomRatio): cleanup of the previous run, then addEventListener
ReceiverRender(r, w, newCallback) ==
  LET old == receivers[r]
      cb  == IF newCallback THEN 1 - old.callback ELSE old.callback
      rerun == ~old.mounted \/ newCallback
  IN /\ receivers' = [receivers EXCEPT ![r] =
          [old EXCEPT !.mounted = TRUE,
                      !.currentWindow = w,
                      !.callback = cb,
                      !.listeners = IF rerun
                                    THEN {[win |-> w, callback |-> cb]}
                                    ELSE @]]
     /\ receivers'[r] # old
     /\ UNCHANGED <<ctrlVars, wheelVars>>

\* teardown: the effect's cleanup runs and the instance, with its refs, is
\* gone; a later mount is a new instance
ReceiverUnmount(r) ==
  /\ receivers[r].mounted
  /\ receivers' = [receivers EXCEPT ![r] = NewReceiver]
  /\ UNCHANGED <<ctrlVars, wheelVars>>

(***************************************************************************)
(* throttle(func, 150) and useZoomController.handleWheel                   *)
(***************************************************************************)
THROTTLE_DELAY == 150

throttleAcceptsInclusive(lastTime, now, delay) == ~(now - lastTime <= delay)
throttleAccepts(lastTime, now, delay) == ~(now - lastTime < delay)

\* a render of the host of useZoomController: throttle() is called in the
\* hook body, so the render's handleWheel owns a fresh lastTime = 0
HostRender ==
  /\ Len(throttles) < MaxRenders
  /\ throttles' = Append(throttles, 0)
  /\ UNCHANGED <<ctrlVars, receivers, clock, wheelLog>>

Tick(gap) ==
  /\ clock + gap <= MaxClock
  /\ clock' = clock + gap
  /\ UNCHANGED <<ctrlVars, receivers, throttles, wheelLog>>

\* handleWheel of render i handles a wheel event with the given deltaY
handleWheel(i, deltaY) ==
  LET now == clock
      accepted == throttleAccepts(throttles[i], now, THROTTLE_DELAY)
  IN /\ wheelLog' = Append(wheelLog,
            [handler |-> i, time |-> now, deltaY |-> deltaY,
             zoomsBefore |-> Len(ops)])
     /\ Len(wheelLog) < MaxWheelEvents
     /\ IF accepted
        THEN /\ throttles' = [throttles EXCEPT ![i] = now]
             /\ zoom(IF deltaY > 0 THEN "out" ELSE "in")
        ELSE /\ UNCHANGED <<throttles, ctrlVars, receivers>>
     /\ UNCHANGED clock

(***************************************************************************)
(* Exact arithmetic for the viewer: a rational is [n, d] with d > 0, kept  *)
(* in lowest terms.  Element positions are whole pixels (Math.trunc),      *)
(* element scales are whole hundredths (toFixed(2)).                       *)
(***************************************************************************)
RECURSIVE GCD(_, _)
GCD(a, b) == IF b = 0 THEN a ELSE GCD(b, a % b)
Rat(n, d) ==
  LET g == GCD(Abs(n), d) IN [n |-> (IF n >= 0 THEN n \div g ELSE -((-n) \div g)),
                              d |-> d \div g]
RInt(k) == [n |-> k, d |-> 1]
RAdd(a, b) == Rat(a.n * b.d + b.n * a.d, a.d * b.d)
RSub(a, b) == Rat(a.n * b.d - b.n * a.d, a.d * b.d)
RMul(a, b) == Rat(a.n * b.n, a.d * b.d)
RLt(a, b) == a.n * b.d < b.n * a.d
RLe(a, b) == a.n * b.d <= b.n * a.d
RMax(a, b) == IF RLt(a, b) THEN b ELSE a
RMin(a, b) == IF RLt(b, a) THEN b ELSE a
\* Math.trunc
RTrunc(a) == IF a.n >= 0 THEN a.n \div a.d ELSE -((-a.n) \div a.d)
\* Math.round: to the nearest integer, halves towards +Infinity
RRound(a) == (2 * a.n + a.d) \div (2 * a.d)
\* Number(x.toFixed(0)) of a rational: nearest integer, halves away from 0
RFixed(a) ==
  IF a.n >= 0 THEN (2 * a.n + a.d) \div (2 * a.d)
  ELSE -((2 * (-a.n) + a.d) \div (2 * a.d))

(***************************************************************************)
(* ZoomViewer: constants of the source                                     *)
(***************************************************************************)
MIN_ZOOM_RATIO == 50
FIND_TARGET_ELEMENT_RETRY_MAX_COUNT == 30
DEFAULT_DURATION == 150
PAN_END_OFFSET == 30

VARIABLES
  el,               \* element.style.transform as getComputedStyle reads it:
                    \* [x, y] in px, scale in hundredths
  frames,           \* pending requestAnimationFrame callbacks, in order
  retryTimers,      \* pending setTimeout(initTargetElement) timers
  findTargetElementRetryCount,
  prevTargetPosition,
  moveElementAfterPanEndFrame,
  viewer,           \* props and layout: isInBounds, fitOnInit, centerOnInit,
                    \* isDisabled, attached (targetElement set), laidOut,
                    \* viewerW, viewerH, contentW, contentH (px)
  swiper,           \* useSwipe: isSwiping, swiperMatrix, registered listeners
  gestureNo,        \* history: number of presses so far
  zoomNo,           \* history: number of zoom broadcasts received
  zoomed,           \* history: the scale the broadcasts received add up to
  writes,           \* history: the transform writes of the last step
  throw,            \* history: what the latest release did
  inits             \* history: runs of initTargetElement

viewerVars == <<el, frames, retryTimers, findTargetElementRetryCount,
                prevTargetPosition, moveElementAfterPanEndFrame, viewer,
                swiper, gestureNo, zoomNo, zoomed,
                 writes, throw, inits>>

ctrlSide == <<ctrlVars, receivers, wheelVars>>
vars == <<ctrlVars, receivers, wheelVars, viewerVars>>

NULL == "null"

\* getBoundingClientRect of the content: its natural size times its scale
targetRectIn(v, e) ==
  IF v.laidOut
  THEN [width |-> Rat(v.contentW * e.scale, 100),
        height |-> Rat(v.contentH * e.scale, 100)]
  ELSE [width |-> RInt(0), height |-> RInt(0)]
viewerRectIn(v) == [width |-> RInt(v.viewerW), height |-> RInt(v.viewerH)]
targetRect(e) == targetRectIn(viewer, e)
viewerRect == viewerRectIn(viewer)

getPrevTransformedPosition(e) == [x |-> e.x, y |-> e.y]
getPrevTransformedScale(e) == e.scale

(***************************************************************************)
(* getNextPosition: the bounds resolver.  x, y, inBoundsOffset, zoomRatio  *)
(* are rationals; e is the element as it is when the resolver reads it.    *)
(***************************************************************************)
ClampSmallNearEdgeOnly(c, size, extent) ==
  IF RLt(c, RInt(0)) THEN RInt(0) ELSE c
ClampSmall(c, size, extent) ==
  LET a == IF RLt(c, RInt(0)) THEN RInt(0) ELSE c
  IN IF RLt(extent, RAdd(a, size)) THEN RSub(extent, size) ELSE a
ClampSmallHit(c, size, extent) ==
  LET a == IF RLt(c, RInt(0)) THEN RInt(0) ELSE c
  IN RLt(c, RInt(0)) \/ RLt(extent, RAdd(a, size))
ClampLarge(c, size, extent, isLow, isHigh) ==
  IF isHigh THEN RSub(extent, size) ELSE IF isLow THEN RInt(0) ELSE c

getNextPositionIn(v, e, x, y, inBoundsOffset, zoomRatio) ==
  IF ~v.attached THEN [nextX |-> x, nextY |-> y, isOverBounds |-> FALSE]
  ELSE
  LET targetWidth == RMul(targetRectIn(v, e).width, zoomRatio)
      targetHeight == RMul(targetRectIn(v, e).height, zoomRatio)
      vw == viewerRectIn(v).width
      vh == viewerRectIn(v).height
      isOverWidth == RLe(vw, targetWidth)
      isOverHeight == RLe(vh, targetHeight)
      isLeftOverBounds == RLt(inBoundsOffset, x)
      isRightOverBounds == RLt(RAdd(x, targetWidth), RSub(vw, inBoundsOffset))
      isTopOverBounds == RLt(inBoundsOffset, y)
      isBottomOverBounds == RLt(RAdd(y, targetHeight), RSub(vh, inBoundsOffset))
      x1 == IF ~isOverWidth THEN ClampSmall(x, targetWidth, vw)
            ELSE ClampLarge(x, targetWidth, vw, isLeftOverBounds, isRightOverBounds)
      y1 == IF ~isOverHeight THEN ClampSmall(y, targetHeight, vh)
            ELSE ClampLarge(y, targetHeight, vh, isTopOverBounds, isBottomOverBounds)
      ox == IF ~isOverWidth THEN ClampSmallHit(x, targetWidth, vw)
            ELSE isLeftOverBounds \/ isRightOverBounds
      oy == IF ~isOverHeight THEN ClampSmallHit(y, targetHeight, vh)
            ELSE isTopOverBounds \/ isBottomOverBounds
      x2 == IF isLeftOverBounds THEN RInt(0)
            ELSE IF isRightOverBounds THEN RSub(vw, targetWidth) ELSE x1
      y2 == IF isTopOverBounds THEN RInt(0)
            ELSE IF isBottomOverBounds THEN RSub(vh, targetHeight) ELSE y1
  IN IF ~v.isInBounds
     THEN [nextX |-> x, nextY |-> y, isOverBounds |-> FALSE]
     ELSE IF isOverWidth /\ isOverHeight
     THEN [nextX |-> x2, nextY |-> y2,
           isOverBounds |-> isLeftOverBounds \/ isRightOverBounds
                            \/ isTopOverBounds \/ isBottomOverBounds]
     ELSE [nextX |-> x1, nextY |-> y1, isOverBounds |-> ox \/ oy]
getNextPosition(e, x, y, inBoundsOffset, zoomRatio) ==
  getNextPositionIn(viewer, e, x, y, inBoundsOffset, zoomRatio)

\* getTransformedPosition: scale the vector from the container's centre
getTransformedPosition(currentPosition, scale, containerSize) ==
  LET centerX == RMul(containerSize.width, Rat(1, 2))
      centerY == RMul(containerSize.height, Rat(1, 2))
  IN [x |-> RAdd(centerX, RMul(RSub(currentPosition.x, centerX), scale)),
      y |-> RAdd(centerY, RMul(RSub(currentPosition.y, centerY), scale))]

(***************************************************************************)
(* animateTransform and the requestAnimationFrame queue                    *)
(***************************************************************************)
NoPosition == [x |-> RInt(0), y |-> RInt(0)]

\* animateTransform(element, {scale, position}, {duration}): samples the
\* current transform and requests the first frame.  gid and src are history:
\* the gesture (0: none) and the caller the animation belongs to.
animateTransform(e, hasScale, scale, hasPosition, position, duration, gid, src) ==
  [kind |-> "animate", gid |-> gid, src |-> src,
   hasScale |-> hasScale, scale |-> scale,
   hasPosition |-> hasPosition, position |-> position,
   prevX |-> getPrevTransformedPosition(e).x,
   prevY |-> getPrevTransformedPosition(e).y,
   prevScale |-> getPrevTransformedScale(e),
   elapsed |-> 0, duration |-> duration,
   force |-> RInt(0), initialForce |-> RInt(0), direction |-> 0]

\* setTranslate(element, x, y, true)
setTranslateAnimated(e, x, y, gid, src) ==
  animateTransform(e, FALSE, RInt(0), TRUE, [x |-> x, y |-> y],
                   DEFAULT_DURATION, gid, src)

\* setTranslate(element, x, y): the immediate write
setTranslate(e, x, y) == [e EXCEPT !.x = RTrunc(x), !.y = RTrunc(y)]

\* setScale(element, scale, position, options): position defaults to (0, 0)
setScale(e, scale, hasPosition, position, duration, gid, src) ==
  animateTransform(e, TRUE, scale, TRUE,
                   IF hasPosition THEN position ELSE NoPosition,
                   duration, gid, src)

Progress(f) ==
  IF f.duration = 0 THEN RInt(1)
  ELSE RMin(Rat(f.elapsed, f.duration), RInt(1))

\* the scale one tick of animateTransform.animate computes
nextScaleUnclamped(f) ==
  IF f.hasScale
  THEN RAdd(RInt(f.prevScale),
            RMul(RSub(f.scale, RInt(f.prevScale)), Progress(f)))
  ELSE RInt(0)
nextScale(f) ==
  RMax(IF f.hasScale
       THEN RAdd(RInt(f.prevScale),
                 RMul(RSub(f.scale, RInt(f.prevScale)), Progress(f)))
       ELSE RInt(0),
       RInt(MIN_ZOOM_RATIO))

\* one tick of animateTransform.animate: the element it leaves
animateTick(e, f) ==
  LET nextX == RAdd(RInt(f.prevX),
                    RMul(RSub(f.position.x, RInt(f.prevX)), Progress(f)))
      nextY == RAdd(RInt(f.prevY),
                    RMul(RSub(f.position.y, RInt(f.prevY)), Progress(f)))
  IN [x |-> IF f.hasPosition THEN RTrunc(nextX) ELSE e.x,
      y |-> IF f.hasPosition THEN RTrunc(nextY) ELSE e.y,
      scale |-> IF f.hasScale THEN RFixed(nextScale(f)) ELSE e.scale]

WriteOf(f, e) ==
  [src |-> f.src, gid |-> f.gid, during |-> gestureNo,
   hasScale |-> f.hasScale /\ f.kind = "animate",
   target |-> f.scale,
   final |-> f.kind = "animate" /\ ~RLt(Progress(f), RInt(1)),
   x |-> e.x, y |-> e.y, scale |-> e.scale]

(***************************************************************************)
(* Momentum: moveElementAfterPanEnd                                        *)
(***************************************************************************)
\* cos and sin of a multiple of 15 degrees, in thousandths
Cos1000(a) ==
  LET b == IF a < 0 THEN -a ELSE a
  IN CASE b = 0 -> 1000 [] b = 15 -> 966 [] b = 30 -> 866 [] b = 45 -> 707
       [] b = 60 -> 500 [] b = 75 -> 259 [] b = 90 -> 0 [] b = 105 -> -259
       [] b = 120 -> -500 [] b = 135 -> -707 [] b = 150 -> -866
       [] b = 165 -> -966 [] b = 180 -> -1000
Sin1000(a) == IF a < 0 THEN -Cos1000(90 + a) ELSE Cos1000(90 - a)

\* setElementEndPosition({x, y}): settle through the resolver at inset 0
settleAt(e, r, gid) ==
  IF viewer.attached
  THEN <<setTranslateAnimated(e, r.nextX, r.nextY, gid, "settle")>>
  ELSE <<>>
setElementEndPosition(e, x, y, gid) ==
  settleAt(e, getNextPosition(e, x, y, RInt(0), RInt(1)), gid)

\* whether the one momentum step reschedules, ends, or does neither
MomentumEnds(isOverBounds, force) ==
  isOverBounds \/ ~RLt(Rat(3, 10), force)

\* moveElementAfterPanEnd(initialForce, direction, onEnd): requests a frame
moveElementAfterPanEnd(e, initialForce, direction, gid) ==
  IF viewer.attached
  THEN <<[kind |-> "momentum", gid |-> gid, src |-> "momentum",
          hasScale |-> FALSE, scale |-> RInt(0),
          hasPosition |-> FALSE, position |-> NoPosition,
          prevX |-> 0, prevY |-> 0,
          prevScale |-> getPrevTransformedScale(e),
          elapsed |-> 0, duration |-> 0,
          force |-> initialForce, initialForce |-> initialForce,
          direction |-> direction]>>
  ELSE <<>>

\* moveElementAfterPanEnd.animate: the step of one momentum frame
\* the step once it has set the translation and decayed the force
momentumOutcome(moved, ends, nextX, nextY, gid) ==
  [e |-> moved,
   ended |-> ends,
   scheduled |-> IF ends THEN setElementEndPosition(moved, nextX, nextY, gid)
                 ELSE <<>>]
\* the step from the candidate position on
momentumMove(e, f, nextX, nextY) ==
  momentumOutcome(
    setTranslate(e, nextX, nextY),
    MomentumEnds(
      getNextPosition(e, nextX, nextY,
                      RMax(RMul(f.initialForce, RInt(3)), RInt(10)),
                      RInt(1)).isOverBounds,
      RMul(f.force, Rat(95, 100))),
    nextX, nextY, f.gid)
\* the step from the distance on
momentumTravel(e, f, distance) ==
  momentumMove(e, f,
    RAdd(RInt(getPrevTransformedPosition(e).x),
         RMul(distance, Rat(Cos1000(f.direction), 1000))),
    RAdd(RInt(getPrevTransformedPosition(e).y),
         RMul(distance, Rat(Sin1000(f.direction), 1000))))
momentumStep(e, f) ==
  momentumTravel(e, f,
    RMul(f.force, RInt(3 * (RRound(Rat(f.prevScale * 3, 1000)) + 1))))

(***************************************************************************)
(* One display refresh: every callback requested before it runs, in        *)
(* request order, with the same timestamp                                  *)
(***************************************************************************)
\* an animateTransform.animate callback that leaves the element e2
animateCallback(f, S, e2) ==
  [S EXCEPT !.e = e2,
            !.out = IF RLt(Progress(f), RInt(1)) THEN Append(@, f) ELSE @,
            !.writes = Append(@, WriteOf(f, e2))]
\* a moveElementAfterPanEnd.animate callback whose step is m
momentumCallback(f, S, m) ==
  [S EXCEPT !.e = m.e,
            !.out = @ \o m.scheduled,
            !.writes = Append(@, WriteOf(f, m.e)),
            !.ref = IF m.ended THEN NULL ELSE @,
            !.throw = IF f.gid = @.gid
                      THEN [@ EXCEPT !.steps = @ + 1,
                                     !.onEnd = @ + (IF m.ended THEN 1 ELSE 0)]
                      ELSE @]
runCallback(f, S) ==
  IF f.kind = "animate"
  THEN animateCallback(f, S, animateTick(S.e, f))
  ELSE momentumCallback(f, S, momentumStep(S.e, f))

RECURSIVE runFrames(_, _)
runFrames(q, S) ==
  IF q = <<>> THEN S ELSE runFrames(Tail(q), runCallback(Head(q), S))

Elapse(q, gap) ==
  [i \in 1..Len(q) |-> [q[i] EXCEPT !.elapsed = @ + gap]]

(***************************************************************************)
(* useSwipe: the force and direction estimator                             *)
(***************************************************************************)
LAST_POSITION_COUNT == 10
MIN_DISPLACEMENT == 10
MIN_TOTAL_TIME == 100
MAX_FORCE == 7
ROUND_ANGLE == 15
THRESHOLD == 30

\* Math.sqrt on the squares the pointer samples produce (rounded down to a whole number)
ISqrt(n) == CHOOSE r \in 0..n : r * r <= n /\ (r + 1) * (r + 1) > n
Hypot(dx, dy) == ISqrt(dx * dx + dy * dy)

\* sin and cos, in ten-thousandths, of the angles 7.5, 22.5, ..., 82.5 at
\* which Math.round(angle / 15) changes
AngleSteps ==
  <<[s |-> 1305, c |-> 9914], [s |-> 3827, c |-> 9239],
    [s |-> 6088, c |-> 7934], [s |-> 7934, c |-> 6088],
    [s |-> 9239, c |-> 3827], [s |-> 9914, c |-> 1305]>>

\* Math.round(Math.atan2(dy, dx) * (180 / Math.PI) / ROUND_ANGLE) * ROUND_ANGLE
roundedAngle(dy, dx) ==
  LET m == Cardinality({i \in 1..6 :
                          Abs(dy) * AngleSteps[i].c >= Abs(dx) * AngleSteps[i].s})
  IN IF dx = 0 /\ dy = 0 THEN 0
     ELSE IF dx >= 0 /\ dy >= 0 THEN ROUND_ANGLE * m
     ELSE IF dx < 0 /\ dy >= 0 THEN 180 - ROUND_ANGLE * m
     ELSE IF dx >= 0 THEN -(ROUND_ANGLE * m)
     ELSE ROUND_ANGLE * m - 180

\* positions.slice(Math.max(positions.length - LAST_POSITION_COUNT, 0))
relevantPositions(positions) ==
  SubSeq(positions, Max(Len(positions) - LAST_POSITION_COUNT, 0) + 1,
         Len(positions))

\* the speed and the displacement from sample i to sample i + 1 of ps
pairSpeed(ps, i) ==
  IF ps[i + 1].timeStamp - ps[i].timeStamp = 0 THEN RInt(0)
  ELSE Rat(Hypot(ps[i + 1].x - ps[i].x, ps[i + 1].y - ps[i].y),
           ps[i + 1].timeStamp - ps[i].timeStamp)
pairDisplacement(ps, i) ==
  Hypot(ps[i + 1].x - ps[i].x, ps[i + 1].y - ps[i].y)

\* the first loop, over i = 1 .. relevantPositions.length - 2: the summed
\* speed and the summed dx, dy of the pairs it visits
RECURSIVE speedSum(_, _, _)
speedSum(ps, lo, hi) ==
  IF lo > hi THEN RInt(0) ELSE RAdd(pairSpeed(ps, lo), speedSum(ps, lo + 1, hi))
summedForce(positions) ==
  speedSum(relevantPositions(positions), 1,
           Len(relevantPositions(positions)) - 2)
RECURSIVE dxSum(_, _, _)
dxSum(ps, lo, hi) ==
  IF lo > hi THEN 0 ELSE (ps[lo + 1].x - ps[lo].x) + dxSum(ps, lo + 1, hi)
RECURSIVE dySum(_, _, _)
dySum(ps, lo, hi) ==
  IF lo > hi THEN 0 ELSE (ps[lo + 1].y - ps[lo].y) + dySum(ps, lo + 1, hi)
totalDx(positions) ==
  dxSum(relevantPositions(positions), 1,
        Len(relevantPositions(positions)) - 2)
totalDy(positions) ==
  dySum(relevantPositions(positions), 1,
        Len(relevantPositions(positions)) - 2)

\* the second loop, over i = 1 .. min(10, positions.length - 1) - 1, walking
\* back from the last sample: displacement and time accumulated over the
\* last k pairs
RECURSIVE lastDisplacement(_, _)
lastDisplacement(positions, k) ==
  IF k = 0 THEN 0
  ELSE pairDisplacement(positions, Len(positions) - k)
         + lastDisplacement(positions, k - 1)
RECURSIVE lastTime(_, _)
lastTime(positions, k) ==
  IF k = 0 THEN 0
  ELSE (positions[Len(positions) - k + 1].timeStamp
          - positions[Len(positions) - k].timeStamp)
       + lastTime(positions, k - 1)
isForceZero(positions) ==
  ~\E k \in 1..(Min(LAST_POSITION_COUNT, Len(positions) - 1) - 1) :
      /\ lastDisplacement(positions, k) > MIN_DISPLACEMENT
      /\ lastTime(positions, k) < MIN_TOTAL_TIME

calculateForceAndDirection(positions) ==
  [force |-> RMin(IF isForceZero(positions) THEN RInt(0)
                  ELSE summedForce(positions),
                  RInt(MAX_FORCE)),
   directionAngle |-> roundedAngle(totalDy(positions), totalDx(positions))]

getDirection(directionType, distanceX, distanceY) ==
  IF directionType = "horizontal"
  THEN (IF distanceX = 0 THEN "none"
        ELSE IF distanceX < 0 THEN "left" ELSE "right")
  ELSE (IF distanceY = 0 THEN "none"
        ELSE IF distanceY < 0 THEN "up" ELSE "down")

(***************************************************************************)
(* ZoomViewer's gesture callbacks (through useGesture)                     *)
(***************************************************************************)
\* the props a handler closes over: those of the render it was created in
Closure == [isDisabled |-> viewer.isDisabled, attached |-> viewer.attached]

\* onPanEnd(panMatrix): the frames it requests
\* onPanEnd from the resolver's answer r on
panEndAt(e, r, force, directionAngle, gid) ==
  IF r.isOverBounds \/ force = RInt(0)
  THEN setElementEndPosition(e, r.nextX, r.nextY, gid)
  ELSE moveElementAfterPanEnd(e, force, directionAngle, gid)
onPanEnd(e, c, force, directionAngle, overThreshold, gid) ==
  IF c.isDisabled \/ ~c.attached THEN <<>>
  ELSE panEndAt(e,
                getNextPosition(e, RInt(getPrevTransformedPosition(e).x),
                                RInt(getPrevTransformedPosition(e).y),
                                RInt(PAN_END_OFFSET), RInt(1)),
                force, directionAngle, gid)

\* cancelAnimationFrame(moveElementAfterPanEndFrame.current): the only
\* request whose id the ref could hold is a momentum frame's
cancelAnimationFrame(q, ref) ==
  IF ref = NULL THEN q
  ELSE SelectSeq(q, LAMBDA f : f.kind # "momentum")

\* useSwipe.handleStart, with useGesture.onStart and ZoomViewer.onPanStart
\* swiperMatrix.current.positions = [{ x: clientX, y: clientY, timeStamp }]
startPositionsAppended(positions, clientX, clientY, timeStamp) ==
  Append(positions, [x |-> clientX, y |-> clientY, timeStamp |-> timeStamp])
startPositions(positions, clientX, clientY, timeStamp) ==
  <<[x |-> clientX, y |-> clientY, timeStamp |-> timeStamp]>>
\* the handler itself: it registers one more handleMove / handleEnd set
pressed(clientX, clientY, timeStamp) ==
  /\ gestureNo < MaxGestures
  /\ swiper' = [swiper EXCEPT
        !.isSwiping = TRUE,
        !.startX = clientX, !.startY = clientY,
        !.startTimeStamp = timeStamp,
        !.positions = startPositions(@, clientX, clientY, timeStamp),
        !.listeners = Append(@, Closure),
        !.event = "start", !.active = TRUE,
        !.moveCalls = 0, !.endCalls = 0]
  /\ gestureNo' = gestureNo + 1
  /\ UNCHANGED <<zoomNo, zoomed>>
  /\ IF viewer.isDisabled
     THEN UNCHANGED <<frames, moveElementAfterPanEndFrame, prevTargetPosition>>
     ELSE /\ frames' = cancelAnimationFrame(frames, moveElementAfterPanEndFrame)
          /\ moveElementAfterPanEndFrame' = NULL
          /\ prevTargetPosition' = IF viewer.attached
                                   THEN getPrevTransformedPosition(el)
                                   ELSE prevTargetPosition
  /\ writes' = <<>>
  /\ UNCHANGED <<el, retryTimers, findTargetElementRetryCount, viewer,
                 throw, inits>>
\* a start event on the viewer while fewer than MaxListeners sets are
\* registered
handleStart(clientX, clientY, timeStamp) ==
  /\ Len(swiper.listeners) < MaxListeners
  /\ pressed(clientX, clientY, timeStamp)

\* one registered handleMove, with useGesture.onMove and ZoomViewer.onPanning
moveOne(c, S, clientX, clientY, timeStamp) ==
  IF ~S.sw.isSwiping THEN S
  ELSE LET dX == clientX - S.sw.startX
           dY == clientY - S.sw.startY
           sw2 == [S.sw EXCEPT
                     !.distanceX = dX, !.distanceY = dY,
                     !.direction = getDirection("horizontal", dX, dY),
                     !.positions = Append(@, [x |-> clientX, y |-> clientY,
                                              timeStamp |-> timeStamp]),
                     !.moveCalls = @ + 1]
           e2 == setTranslate(S.e, RInt(prevTargetPosition.x + dX),
                              RInt(prevTargetPosition.y + dY))
       IN IF c.isDisabled \/ ~c.attached
          THEN [S EXCEPT !.sw = sw2]
          ELSE [S EXCEPT !.sw = sw2, !.e = e2,
                         !.writes = Append(@, [src |-> "pan", gid |-> gestureNo,
                                               during |-> gestureNo,
                                               hasScale |-> FALSE,
                                               target |-> RInt(0),
                                               final |-> FALSE,
                                               x |-> e2.x, y |-> e2.y,
                                               scale |-> e2.scale])]

RECURSIVE moveAll(_, _, _, _, _)
moveAll(cs, S, clientX, clientY, timeStamp) ==
  IF cs = <<>> THEN S
  ELSE moveAll(Tail(cs), moveOne(Head(cs), S, clientX, clientY, timeStamp),
               clientX, clientY, timeStamp)

\* a move event on the window: every registered handleMove runs
panned(S) ==
  /\ swiper' = S.sw
  /\ el' = S.e
  /\ writes' = S.writes
  /\ UNCHANGED <<frames, retryTimers, findTargetElementRetryCount,
                 prevTargetPosition, moveElementAfterPanEndFrame, viewer,
                 gestureNo, zoomNo, zoomed,
                 throw, inits>>
\* the record as an event finds it: no callback invoked by it yet
arrived(sw, event) ==
  [sw EXCEPT !.event = event, !.active = (event # "end" /\ @),
             !.moveCalls = 0, !.endCalls = 0]
\* a move event on the window, whether or not a handleMove is registered
moveEvent(clientX, clientY, gap) ==
  /\ swiper.active => Len(swiper.positions) < MaxSamples - 1
  /\ panned(moveAll(swiper.listeners,
                    [sw |-> arrived(swiper, "move"), e |-> el,
                     writes |-> <<>>],
                    clientX, clientY,
                    swiper.positions[Len(swiper.positions)].timeStamp + gap))
handleMove(clientX, clientY, gap) ==
  /\ swiper.listeners # <<>>
  /\ moveEvent(clientX, clientY, gap)

\* one registered handleEnd, with ZoomViewer.onPanEnd: the handler once
\* onEnd has returned, having requested the frames
endDone(S, dX, dY, positions, fd, overThreshold, requested) ==
  [S EXCEPT
     !.sw = [@ EXCEPT !.isSwiping = FALSE,
                      !.distanceX = dX, !.distanceY = dY,
                      !.direction = getDirection("horizontal", dX, dY),
                      !.positions = positions,
                      !.force = fd.force,
                      !.directionAngle = fd.directionAngle,
                      !.endCalls = @ + 1],
     !.out = @ \o requested,
     !.throw = [gid |-> gestureNo, overThreshold |-> overThreshold,
                force |-> fd.force,
                momentum |-> \E i \in 1..Len(requested) :
                                requested[i].kind = "momentum",
                steps |-> 0, onEnd |-> 0]]
\* the handler from the estimator's result on
endWith(c, S, dX, dY, positions, fd, overThreshold) ==
  endDone(S, dX, dY, positions, fd, overThreshold,
          onPanEnd(S.e, c, fd.force, fd.directionAngle, overThreshold,
                   gestureNo))
\* the handler from the recorded release sample on
endAt(c, S, dX, dY, positions) ==
  endWith(c, S, dX, dY, positions, calculateForceAndDirection(positions),
          Abs(dX) > THRESHOLD)
endOne(c, S, clientX, clientY, timeStamp) ==
  endAt(c, S, clientX - S.sw.startX, clientY - S.sw.startY,
        Append(S.sw.positions,
               [x |-> clientX, y |-> clientY, timeStamp |-> timeStamp]))

RECURSIVE endAll(_, _, _, _, _)
endAll(cs, S, clientX, clientY, timeStamp) ==
  IF cs = <<>> THEN S
  ELSE endAll(Tail(cs), endOne(Head(cs), S, clientX, clientY, timeStamp),
              clientX, clientY, timeStamp)

\* an end event on the window: every registered handleEnd runs and removes
\* its listeners
\* the end event is over: every handleEnd that ran has removed its set
releasedStillSwiping(S) ==
  /\ swiper' = [S.sw EXCEPT !.isSwiping = TRUE]
  /\ frames' = S.out
  /\ throw' = S.throw
  /\ writes' = <<>>
  /\ UNCHANGED <<el, retryTimers, findTargetElementRetryCount,
                 prevTargetPosition, moveElementAfterPanEndFrame, viewer,
                 gestureNo, zoomNo, zoomed,
                 inits>>
released(S) ==
  /\ swiper' = [S.sw EXCEPT !.listeners = <<>>]
  /\ frames' = S.out
  /\ throw' = S.throw
  /\ writes' = <<>>
  /\ UNCHANGED <<el, retryTimers, findTargetElementRetryCount,
                 prevTargetPosition, moveElementAfterPanEndFrame, viewer,
                 gestureNo, zoomNo, zoomed,
                 inits>>
handleEnd(clientX, clientY, gap) ==
  /\ swiper.listeners # <<>>
  /\ released(endAll(swiper.listeners,
                     [sw |-> arrived(swiper, "end"), e |-> el, out |-> frames,
                      throw |-> throw],
                     clientX, clientY,
                     swiper.positions[Len(swiper.positions)].timeStamp + gap))

\* a display refresh, gap ms after the previous one
refreshed(S) ==
  /\ el' = S.e
  /\ frames' = S.out
  /\ writes' = S.writes
  /\ moveElementAfterPanEndFrame' = S.ref
  /\ throw' = S.throw
  /\ UNCHANGED <<retryTimers, findTargetElementRetryCount,
                 prevTargetPosition, viewer, swiper, gestureNo, zoomNo, zoomed,
                 inits>>
Frame(gap) ==
  /\ frames # <<>>
  /\ refreshed(runFrames(Elapse(frames, gap),
                         [e |-> el, out |-> <<>>, writes |-> <<>>,
                          ref |-> moveElementAfterPanEndFrame,
                          throw |-> throw]))

(***************************************************************************)
(* Zoom broadcasts received by the viewer                                  *)
(***************************************************************************)
\* zoomTargetElement(deltaZoomRatio): the frames it requests
zoomTargetElement(e, deltaZoomRatio) ==
  LET prev == getPrevTransformedPosition(e)
      prevZoomRatio == getPrevTransformedScale(e)
      nextZoom == prevZoomRatio + deltaZoomRatio
      ratio == Rat(nextZoom, prevZoomRatio)
      t == getTransformedPosition([x |-> RInt(prev.x), y |-> RInt(prev.y)],
                                  ratio, viewerRect)
      r == getNextPosition(e, t.x, t.y, RInt(0), ratio)
  IN IF ~viewer.attached \/ prevZoomRatio = 0 \/ deltaZoomRatio = 0
     THEN <<>>
     ELSE <<setScale(e, RInt(nextZoom), TRUE, [x |-> r.nextX, y |-> r.nextY],
                     DEFAULT_DURATION, 0, "zoom")>>

\* the viewer's onChangeZoomRatio(zoomRatio, prevZoomRatio), in hundredths
onChangeZoomRatio(zoomRatio, prevZoomRatio) ==
  /\ Len(frames) < MaxFrames
  /\ zoomNo < MaxZoomEvents
  /\ zoomNo' = zoomNo + 1
  /\ zoomed' = [expected |-> (IF zoomNo = 0 THEN getPrevTransformedScale(el)
                              ELSE zoomed.expected)
                             + (zoomRatio - prevZoomRatio),
                exact |-> /\ zoomed.exact
                          /\ viewer.attached
                          /\ (IF zoomNo = 0 THEN getPrevTransformedScale(el)
                               ELSE zoomed.expected)
                               + (zoomRatio - prevZoomRatio) >= MIN_ZOOM_RATIO
                          /\ getPrevTransformedScale(el)
                               + (zoomRatio - prevZoomRatio) >= MIN_ZOOM_RATIO]
  /\ frames' = frames \o zoomTargetElement(el, zoomRatio - prevZoomRatio)
  /\ writes' = <<>>
  /\ UNCHANGED <<el, retryTimers, findTargetElementRetryCount,
                 prevTargetPosition, moveElementAfterPanEndFrame, viewer,
                 swiper, gestureNo, throw, inits>>

(***************************************************************************)
(* initTargetElement                                                       *)
(***************************************************************************)
\* targetRatio > viewerRatio, cross-multiplied (all four sides are positive)
isTargetNarrower(vr, tr) ==
  RLt(RMul(tr.width, vr.height), RMul(vr.width, tr.height))
isTargetWider(vr, tr) ==
  RLt(RMul(vr.width, tr.height), RMul(tr.width, vr.height))

\* initScale of a render whose props and layout are v: 1 without fitOnInit
fitScale(v, vr, tr) ==
  IF ~v.fitOnInit THEN RInt(1)
  ELSE IF isTargetWider(vr, tr) THEN Rat(vr.width.n * tr.width.d, tr.width.n)
  ELSE Rat(vr.height.n * tr.height.d, tr.height.n)
initScaleIn(v, e) == fitScale(v, viewerRectIn(v), targetRectIn(v, e))

\* the position of the centerOnInit branch
centeredAt(v, e, vr, tr, initScale) ==
  getNextPositionIn(v, e,
    getTransformedPosition(
      [x |-> IF RLe(vr.width, tr.width) THEN RInt(0)
             ELSE RSub(RMul(vr.width, Rat(1, 2)), RMul(tr.width, Rat(1, 2))),
       y |-> IF RLe(vr.height, tr.height) THEN RInt(0)
             ELSE RSub(RMul(vr.height, Rat(1, 2)), RMul(tr.height, Rat(1, 2)))],
      initScale, vr).x,
    getTransformedPosition(
      [x |-> IF RLe(vr.width, tr.width) THEN RInt(0)
             ELSE RSub(RMul(vr.width, Rat(1, 2)), RMul(tr.width, Rat(1, 2))),
       y |-> IF RLe(vr.height, tr.height) THEN RInt(0)
             ELSE RSub(RMul(vr.height, Rat(1, 2)), RMul(tr.height, Rat(1, 2)))],
      initScale, vr).y,
    RInt(0), initScale)

\* the fit/center part from initScale on: the frames it requests
initFrames(v, e, initScale, target, r) ==
  (IF v.fitOnInit /\ initScale # RInt(1) /\ ~v.centerOnInit
   THEN <<setScale(e, target, FALSE, NoPosition, 0, 0, "init")>>
   ELSE <<>>)
  \o
  (IF v.centerOnInit
   THEN <<setScale(e, target, TRUE, [x |-> r.nextX, y |-> r.nextY],
                   0, 0, "init")>>
   ELSE <<>>)
initWith(v, e, initScale) ==
  initFrames(v, e, initScale,
             RMul(RInt(getPrevTransformedScale(e)), initScale),
             centeredAt(v, e, viewerRectIn(v), targetRectIn(v, e), initScale))
\* the fit/center part: the frames it requests on measurable content, in
\* a render whose props and layout are v
initApply(v, e) == initWith(v, e, initScaleIn(v, e))

\* the ratios the fit/center part hands to onInit, in hundredths
onInitWith(v, initScale, target) ==
  (IF v.fitOnInit /\ initScale # RInt(1) /\ ~v.centerOnInit
   THEN <<target>> ELSE <<>>)
  \o (IF v.centerOnInit THEN <<target>> ELSE <<>>)
onInit(v, e) ==
  onInitWith(v, initScaleIn(v, e),
             RMul(RInt(getPrevTransformedScale(e)), initScaleIn(v, e)))

\* whether the retry counter, already incremented, still allows a timer
retryAllowed(count) == ~(count > FIND_TARGET_ELEMENT_RETRY_MAX_COUNT)

\* initTargetElement() of a render whose props and layout are v and whose
\* isDisabled prop was `disabled`; pending are the retry timers not yet fired
initTargetElement(v, disabled, trigger, pending) ==
  LET tr == targetRectIn(v, el)
      zero == tr.width = RInt(0) /\ tr.height = RInt(0)
      counts == v.attached /\ zero /\ ~disabled
      count == findTargetElementRetryCount + 1
      retries == counts /\ retryAllowed(count)
      applies == v.attached /\ ~zero
  IN /\ findTargetElementRetryCount' = IF counts THEN count
                                       ELSE findTargetElementRetryCount
     /\ retryTimers' = IF retries THEN Append(pending, disabled) ELSE pending
     /\ frames' = IF applies THEN frames \o initApply(v, el) ELSE frames
     /\ inits' = [trigger |-> trigger, ran |-> v.attached, zero |-> zero,
                  disabled |-> disabled, scheduled |-> retries,
                  applied |-> applies,
                  timers |-> inits.timers + (IF retries THEN 1 ELSE 0),
                  initScale |-> IF applies THEN initScaleIn(v, el) ELSE RInt(1),
                  onInit |-> IF applies THEN onInit(v, el) ELSE <<>>,
                  requested |-> IF applies THEN initApply(v, el) ELSE <<>>,
                  shown |-> el]

\* the ref callback's setTimeout fires: targetElement is set, the layout
\* effect runs initTargetElement unless isDisabled, and the resize listener
\* is registered with this render's initTargetElement
Attach ==
  LET v == [viewer EXCEPT !.attached = TRUE,
                          !.resizeDisabled = viewer.isDisabled]
  IN /\ ~viewer.attached
     /\ viewer' = v
     /\ IF viewer.isDisabled
        THEN UNCHANGED <<findTargetElementRetryCount, retryTimers, frames, inits>>
        ELSE initTargetElement(v, FALSE, "attach", retryTimers)
     /\ writes' = <<>>
     /\ UNCHANGED <<el, prevTargetPosition, moveElementAfterPanEndFrame,
                    swiper, gestureNo, zoomNo, zoomed,
                 throw>>

\* a resize event of the window: the registered handleResize runs the
\* initTargetElement of the render that registered it
Resize(w, h) ==
  LET v == [viewer EXCEPT !.viewerW = w, !.viewerH = h]
  IN /\ viewer.attached
     /\ Len(frames) < MaxFrames
     /\ Len(retryTimers) < MaxTimers
     /\ findTargetElementRetryCount < MaxRetryCount
     /\ viewer' = v
     /\ initTargetElement(v, viewer.resizeDisabled, "resize", retryTimers)
     /\ writes' = <<>>
     /\ UNCHANGED <<el, prevTargetPosition, moveElementAfterPanEndFrame,
                    swiper, gestureNo, zoomNo, zoomed,
                 throw>>

\* a retry timer fires, 200 ms after it was set
RetryTimer ==
  /\ retryTimers # <<>>
  /\ initTargetElement(viewer, Head(retryTimers), "retry", Tail(retryTimers))
  /\ writes' = <<>>
  /\ UNCHANGED <<el, prevTargetPosition, moveElementAfterPanEndFrame, viewer,
                 swiper, gestureNo, zoomNo, zoomed,
                 throw>>

\* the content is laid out: its measured size becomes non-zero
Layout ==
  /\ ~viewer.laidOut
  /\ viewer' = [viewer EXCEPT !.laidOut = TRUE]
  /\ writes' = <<>>
  /\ UNCHANGED <<el, frames, retryTimers, findTargetElementRetryCount,
                 prevTargetPosition, moveElementAfterPanEndFrame, swiper,
                 gestureNo, zoomNo, zoomed,
                 throw, inits>>

\* the isDisabled prop changes: the layout effect (deps isDisabled,
\* targetElement) runs initTargetElement when the viewer becomes enabled
SetDisabled(d) ==
  LET v == [viewer EXCEPT !.isDisabled = d]
  IN /\ viewer.isDisabled # d
     /\ Len(frames) < MaxFrames
     /\ viewer' = v
     /\ IF d
        THEN UNCHANGED <<findTargetElementRetryCount, retryTimers, frames, inits>>
        ELSE initTargetElement(v, FALSE, "enable", retryTimers)
     /\ writes' = <<>>
     /\ UNCHANGED <<el, prevTargetPosition, moveElementAfterPanEndFrame,
                    swiper, gestureNo, zoomNo, zoomed,
                 throw>>

(***************************************************************************)
(* Initial values                                                          *)
(***************************************************************************)
NewSwiper ==
  [isSwiping |-> FALSE, startX |-> 0, startY |-> 0, startTimeStamp |-> 0,
   distanceX |-> 0, distanceY |-> 0, direction |-> "none",
   positions |-> <<[x |-> 0, y |-> 0, timeStamp |-> 0]>>,
   force |-> RInt(0), directionAngle |-> 0, listeners |-> <<>>,
   event |-> "none", active |-> FALSE, moveCalls |-> 0, endCalls |-> 0]

NoZoom == [expected |-> 0, exact |-> TRUE]

NoThrow ==
  [gid |-> 0, overThreshold |-> FALSE, force |-> RInt(0),
   momentum |-> FALSE, steps |-> 0, onEnd |-> 0]

NoInit ==
  [trigger |-> "none", ran |-> FALSE, zero |-> FALSE, disabled |-> FALSE,
   scheduled |-> FALSE, applied |-> FALSE, timers |-> 0,
   initScale |-> RInt(1), onInit |-> <<>>, requested |-> <<>>,
   shown |-> [x |-> 0, y |-> 0, scale |-> 100]]

\* a mounted viewer before its content element is attached
NewViewer(vs, cs) ==
  [isInBounds |-> TRUE, fitOnInit |-> TRUE, centerOnInit |-> TRUE,
   isDisabled |-> FALSE, attached |-> FALSE, resizeDisabled |-> FALSE,
   laidOut |-> FALSE,
   viewerW |-> vs.w, viewerH |-> vs.h, contentW |-> cs.w, contentH |-> cs.h]

\* nothing pending and nothing recorded, the content's transform being e
ViewerIdleAt(e) ==
  /\ el = e
  /\ frames = <<>>
  /\ retryTimers = <<>>
  /\ findTargetElementRetryCount = 0
  /\ prevTargetPosition = [x |-> 0, y |-> 0]
  /\ moveElementAfterPanEndFrame = NULL
  /\ swiper = NewSwiper
  /\ gestureNo = 0
  /\ zoomNo = 0
  /\ zoomed = NoZoom
  /\ writes = <<>>
  /\ throw = NoThrow
  /\ inits = NoInit

ViewerIdle == ViewerIdleAt([x |-> 0, y |-> 0, scale |-> 100])

ControllerIdle ==
  /\ zoomRatioStep = 500
  /\ minZoomRatio = 500
  /\ prevZoomRatioRef = 1000
  /\ ctrlWindow = "w1"
  /\ ops = <<>>
  /\ ratios = <<prevZoomRatioRef>>
  /\ events = <<>>
  /\ receivers = [r \in Receivers |-> NewReceiver]
  /\ throttles = <<0>>
  /\ clock = StartClock
  /\ wheelLog = <<>>

(***************************************************************************)
(* Specification of pointer gestures on an attached, laid-out viewer whose *)
(* initialization left the transform alone (fitOnInit and centerOnInit     *)
(* off)                                                                    *)
(***************************************************************************)
InitGesture ==
  /\ ControllerIdle
  /\ ViewerIdle
  /\ \E vs \in ViewerSizes, cs \in ContentSizes :
       viewer = [NewViewer(vs, cs) EXCEPT !.fitOnInit = FALSE,
                                          !.centerOnInit = FALSE,
                                          !.attached = TRUE,
                                          !.laidOut = TRUE]

NextGesture ==
  \/ UNCHANGED ctrlSide
       /\ handleStart(PressPoint.x, PressPoint.y, PressTimeStamp)
  \/ UNCHANGED ctrlSide
       /\ \E p \in PointerPoints, g \in PointerGaps : handleMove(p.x, p.y, g)
  \/ UNCHANGED ctrlSide
       /\ \E p \in PointerPoints, g \in PointerGaps : handleEnd(p.x, p.y, g)
  \/ UNCHANGED ctrlSide /\ \E g \in FrameGaps : Frame(g)

SpecGesture == InitGesture /\ [][NextGesture]_vars

(***************************************************************************)
(* Specification of the animated writes: a viewer that attaches its        *)
(* content, whose transform starts at any scale, and receives zoom         *)
(* broadcasts                                                              *)
(***************************************************************************)
InitAnimate ==
  /\ ControllerIdle
  /\ \E sc \in StartScales : ViewerIdleAt([x |-> 0, y |-> 0, scale |-> sc])
  /\ \E vs \in ViewerSizes, cs \in ContentSizes :
       viewer = [NewViewer(vs, cs) EXCEPT !.laidOut = TRUE]

NextAnimate ==
  \/ UNCHANGED ctrlSide /\ Attach
  \/ UNCHANGED ctrlSide
       /\ \E z \in ZoomEventRatios, pz \in ZoomEventRatios :
            onChangeZoomRatio(z, pz)
  \/ UNCHANGED ctrlSide /\ \E g \in FrameGaps : Frame(g)

SpecAnimate == InitAnimate /\ [][NextAnimate]_vars

(***************************************************************************)
(* Specification of the isDisabled prop: a viewer mounted enabled or       *)
(* disabled, whose prop changes, under gestures, zoom broadcasts, resizes  *)
(* and attachment                                                          *)
(***************************************************************************)
InitDisabled ==
  /\ ControllerIdle
  /\ ViewerIdle
  /\ \E d \in BOOLEAN :
       viewer = [NewViewer([w |-> 200, h |-> 100], [w |-> 400, h |-> 200])
                   EXCEPT !.laidOut = TRUE, !.isDisabled = d]

NextDisabled ==
  \/ UNCHANGED ctrlSide /\ Attach
  \/ UNCHANGED ctrlSide /\ \E d \in BOOLEAN : SetDisabled(d)
  \/ UNCHANGED ctrlSide /\ Resize(viewer.viewerW, viewer.viewerH)
  \/ UNCHANGED ctrlSide
       /\ zoomNo < MaxDisabledZooms
       /\ onChangeZoomRatio(150, 100)
  \/ UNCHANGED ctrlSide
       /\ handleStart(PressPoint.x, PressPoint.y, PressTimeStamp)
  \/ UNCHANGED ctrlSide
       /\ \E p \in DragPoints, g \in DragGaps : handleMove(p.x, p.y, g)
  \/ UNCHANGED ctrlSide
       /\ \E p \in DragPoints, g \in DragGaps : handleEnd(p.x, p.y, g)
  \/ UNCHANGED ctrlSide /\ Frame(DEFAULT_DURATION)

SpecDisabled == InitDisabled /\ [][NextDisabled]_vars

(***************************************************************************)
(* Specification of initialization: a viewer whose content is attached     *)
(* before it is laid out, under resizes and retry timers                   *)
(***************************************************************************)
InitInit ==
  /\ ControllerIdle
  /\ ViewerIdle
  /\ \E cs \in ContentSizes :
       viewer = NewViewer([w |-> 200, h |-> 100], cs)

NextInit ==
  \/ UNCHANGED ctrlSide /\ Attach
  \/ UNCHANGED ctrlSide /\ \E sz \in ResizeSizes : Resize(sz.w, sz.h)
  \/ UNCHANGED ctrlSide /\ RetryTimer
  \/ UNCHANGED ctrlSide /\ Layout
  \/ UNCHANGED ctrlSide /\ \E g \in FrameGaps : Frame(g)

SpecInit == InitInit /\ [][NextInit]_vars

(***************************************************************************)
(* Specification of fit and center on init: a viewer whose laid-out        *)
(* content is attached, under resizes of the viewport                      *)
(***************************************************************************)
InitFit ==
  /\ ControllerIdle
  /\ ViewerIdle
  /\ \E vs \in FitSizes, cs \in ContentSizes, fit \in BOOLEAN,
        center \in BOOLEAN :
       viewer = [NewViewer(vs, cs) EXCEPT !.laidOut = TRUE,
                                          !.fitOnInit = fit,
                                          !.centerOnInit = center]

NextFit ==
  \/ UNCHANGED ctrlSide /\ Attach
  \/ UNCHANGED ctrlSide /\ \E sz \in FitSizes : Resize(sz.w, sz.h)
  \/ UNCHANGED ctrlSide /\ Frame(DEFAULT_DURATION)

SpecFit == InitFit /\ [][NextFit]_vars

(***************************************************************************)
(* Specification of a fitted, uncentered viewer whose content is dragged   *)
(* and whose viewport is resized                                           *)
(***************************************************************************)
InitFitDrag ==
  /\ ControllerIdle
  /\ ViewerIdle
  /\ \E vs \in FitSizes :
       viewer = [NewViewer(vs, [w |-> 400, h |-> 200])
                   EXCEPT !.laidOut = TRUE, !.centerOnInit = FALSE]

NextFitDrag ==
  \/ UNCHANGED ctrlSide /\ Attach
  \/ UNCHANGED ctrlSide /\ \E sz \in FitSizes : Resize(sz.w, sz.h)
  \/ UNCHANGED ctrlSide
       /\ handleStart(PressPoint.x, PressPoint.y, PressTimeStamp)
  \/ UNCHANGED ctrlSide
       /\ \E p \in FitDragPoints, g \in DragGaps : handleMove(p.x, p.y, g)
  \/ UNCHANGED ctrlSide
       /\ \E p \in FitDragPoints, g \in DragGaps : handleEnd(p.x, p.y, g)
  \/ UNCHANGED ctrlSide /\ Frame(DEFAULT_DURATION)

SpecFitDrag == InitFitDrag /\ [][NextFitDrag]_vars

(***************************************************************************)
(* Specification of the motion record: presses, moves and releases whose   *)
(* event timestamps never decrease                                         *)
(***************************************************************************)
InitSwipe ==
  /\ ControllerIdle
  /\ ViewerIdle
  /\ viewer = [NewViewer([w |-> 200, h |-> 100], [w |-> 400, h |-> 200])
                 EXCEPT !.fitOnInit = FALSE, !.centerOnInit = FALSE,
                        !.attached = TRUE, !.laidOut = TRUE]

NextSwipe ==
  \/ UNCHANGED ctrlSide
       /\ \E g \in SwipeGaps :
            handleStart(PressPoint.x, PressPoint.y,
                        swiper.positions[Len(swiper.positions)].timeStamp + g)
  \/ UNCHANGED ctrlSide
       /\ \E p \in DragPoints, g \in SwipeGaps : handleMove(p.x, p.y, g)
  \/ UNCHANGED ctrlSide
       /\ \E p \in DragPoints, g \in SwipeGaps : handleEnd(p.x, p.y, g)
  \/ UNCHANGED ctrlSide /\ Frame(DEFAULT_DURATION)

SpecSwipe == InitSwipe /\ [][NextSwipe]_vars

(***************************************************************************)
(* Specification of the pointer events: starts, also while a gesture is    *)
(* active (a second touch), moves, also while none is, and ends            *)
(***************************************************************************)
NextTouch ==
  \/ UNCHANGED ctrlSide
       /\ Len(swiper.listeners) < MaxTouches
       /\ \E g \in SwipeGaps :
            pressed(PressPoint.x, PressPoint.y,
                    swiper.positions[Len(swiper.positions)].timeStamp + g)
  \/ UNCHANGED ctrlSide
       /\ \E p \in DragPoints, g \in SwipeGaps : moveEvent(p.x, p.y, g)
  \/ UNCHANGED ctrlSide
       /\ \E p \in DragPoints, g \in SwipeGaps : handleEnd(p.x, p.y, g)
  \/ UNCHANGED ctrlSide /\ Frame(DEFAULT_DURATION)

SpecTouch == InitSwipe /\ [][NextTouch]_vars

(***************************************************************************)
(* Specification of the bounds resolver: content of any size lying at any  *)
(* candidate position is tapped, and the release settles it                *)
(***************************************************************************)
InitResolve ==
  /\ ControllerIdle
  /\ \E x \in CandidateOffsets, y \in CandidateOffsets :
       ViewerIdleAt([x |-> x, y |-> y, scale |-> 100])
  /\ \E cs \in ResolveContents :
       viewer = [NewViewer([w |-> 200, h |-> 100], cs)
                   EXCEPT !.fitOnInit = FALSE, !.centerOnInit = FALSE,
                          !.attached = TRUE, !.laidOut = TRUE]

NextResolve ==
  \/ UNCHANGED ctrlSide
       /\ handleStart(PressPoint.x, PressPoint.y, PressTimeStamp)
  \/ UNCHANGED ctrlSide
       /\ \E g \in DragGaps : handleEnd(PressPoint.x, PressPoint.y, g)
  \/ UNCHANGED ctrlSide /\ Frame(DEFAULT_DURATION)

SpecResolve == InitResolve /\ [][NextResolve]_vars

(***************************************************************************)
(* Specification of zoom broadcasts delivered to an attached viewer at     *)
(* scale 1, between and during its animation frames                        *)
(***************************************************************************)
InitZoom ==
  /\ ControllerIdle
  /\ ViewerIdle
  /\ \E cs \in ContentSizes :
       viewer = [NewViewer([w |-> 200, h |-> 100], cs)
                   EXCEPT !.fitOnInit = FALSE, !.centerOnInit = FALSE,
                          !.attached = TRUE, !.laidOut = TRUE]

NextZoom ==
  \/ UNCHANGED ctrlSide
       /\ \E z \in ZoomSteps, pz \in ZoomSteps : onChangeZoomRatio(z, pz)
  \/ UNCHANGED ctrlSide /\ \E g \in FrameGaps : Frame(g)

SpecZoom == InitZoom /\ [][NextZoom]_vars

(***************************************************************************)
(* Specification of the controller and its receivers                       *)
(***************************************************************************)
InitController ==
  /\ zoomRatioStep \in ZoomRatioSteps
  /\ minZoomRatio \in MinZoomRatios
  /\ prevZoomRatioRef \in InitialZoomRatios
  /\ ctrlWindow \in Windows
  /\ ops = <<>>
  /\ ratios = <<prevZoomRatioRef>>
  /\ events = <<>>
  /\ receivers = [r \in Receivers |-> NewReceiver]
  /\ throttles = <<0>>
  /\ clock = StartClock
  /\ wheelLog = <<>>
  /\ ViewerIdle
  /\ viewer = NewViewer([w |-> 200, h |-> 100], [w |-> 100, h |-> 50])

NextController ==
  \/ zoomIn /\ UNCHANGED viewerVars
  \/ zoomOut /\ UNCHANGED viewerVars

SpecController == InitController /\ [][NextController]_vars

(***************************************************************************)
(* Specification of the broadcast channel: one controller with the default *)
(* props, receivers that mount, re-render and unmount                      *)
(***************************************************************************)
InitBroadcast ==
  /\ zoomRatioStep = 500
  /\ minZoomRatio = 500
  /\ prevZoomRatioRef = 1000
  /\ ctrlWindow = "w1"
  /\ ops = <<>>
  /\ ratios = <<prevZoomRatioRef>>
  /\ events = <<>>
  /\ receivers = [r \in Receivers |-> NewReceiver]
  /\ throttles = <<0>>
  /\ clock = StartClock
  /\ wheelLog = <<>>
  /\ ViewerIdle
  /\ viewer = NewViewer([w |-> 200, h |-> 100], [w |-> 100, h |-> 50])

NextBroadcast ==
  \/ Len(ops) < MaxBroadcasts /\ zoomIn /\ UNCHANGED viewerVars
  \/ Len(ops) < MaxBroadcasts /\ zoomOut /\ UNCHANGED viewerVars
  \/ UNCHANGED viewerVars
       /\ \E r \in Receivers, w \in Windows, c \in BOOLEAN :
            ReceiverRender(r, w, c)
  \/ UNCHANGED viewerVars /\ \E r \in Receivers : ReceiverUnmount(r)

SpecBroadcast == InitBroadcast /\ [][NextBroadcast]_vars

(***************************************************************************)
(* Specification of the wheel throttle                                     *)
(***************************************************************************)
InitWheel ==
  /\ zoomRatioStep = 500
  /\ minZoomRatio = 500
  /\ prevZoomRatioRef = 1000
  /\ ctrlWindow = "w1"
  /\ ops = <<>>
  /\ ratios = <<prevZoomRatioRef>>
  /\ events = <<>>
  /\ receivers = [r \in Receivers |->
        IF r = 1
        THEN [NewReceiver EXCEPT !.mounted = TRUE,
                                 !.listeners = {[win |-> "w1", callback |-> 0]}]
        ELSE NewReceiver]
  /\ throttles = <<0>>
  /\ clock = StartClock
  /\ wheelLog = <<>>
  /\ ViewerIdle
  /\ viewer = NewViewer([w |-> 200, h |-> 100], [w |-> 100, h |-> 50])

NextWheel ==
  \/ HostRender /\ UNCHANGED viewerVars
  \/ UNCHANGED viewerVars /\ \E gap \in WheelGaps : Tick(gap)
  \/ UNCHANGED viewerVars
       /\ \E i \in 1..Len(throttles), d \in WheelDeltas : handleWheel(i, d)

SpecWheel == InitWheel /\ [][NextWheel]_vars

(***************************************************************************)
(* Claims about the controller and the broadcast channel                   *)
(***************************************************************************)
OpDelta(i) == IF ops[i] = "in" THEN zoomRatioStep ELSE -zoomRatioStep
Unrounded(i) == Max(ratios[i] + OpDelta(i), minZoomRatio)

\* each call sets the ratio to max(previous +/- step, floor) rounded to the
\* nearest hundredth, and the two sequences of the spec's examples
C1_PerCall ==
  /\ Len(ratios) = Len(ops) + 1
  /\ prevZoomRatioRef = ratios[Len(ratios)]
  /\ \A i \in 1..Len(ops) :
       /\ ratios[i + 1] % 10 = 0
       /\ 2 * Abs(ratios[i + 1] - Unrounded(i)) <= 10
  /\ (zoomRatioStep = 500 /\ minZoomRatio = 500 /\ ratios[1] = 1000) =>
       /\ (\A i \in 1..Len(ops) : ops[i] = "in") =>
            \A i \in 1..Len(ops) : ratios[i + 1] = 1000 + 500 * i
       /\ (\A i \in 1..Len(ops) : ops[i] = "out") =>
            \A i \in 1..Len(ops) : ratios[i + 1] = 500

\* C1 (as amended): every zoomIn/zoomOut sets the ratio to
\* max(previous +/- step, floor) rounded to 2 decimals; the ratio is never
\* below the floor rounded to 2 decimals (never half a hundredth or more
\* below the floor); zoomIn from 1 with step 0.5 yields 1.5, 2.0, 2.5, ...
\* and zoomOut from 1.0 reaches 0.5 and stays there.
C1_ZoomRatioSequence ==
  /\ C1_PerCall
  /\ \A i \in 1..Len(ops) : ratios[i + 1] > minZoomRatio - 5

\* a floor with three decimals was clamped to and rounded, after a zoomIn
C1_Witness ==
  /\ minZoomRatio = 504
  /\ \E i, j \in 1..Len(ops) :
       /\ ops[i] = "in"
       /\ ops[j] = "out"
       /\ ratios[j] - zoomRatioStep < minZoomRatio
       /\ ratios[j + 1] = 500

\* C1 (as stated): as above, and the ratio is never below the floor
C1_NeverBelowFloor ==
  /\ C1_PerCall
  /\ \A i \in 1..Len(ops) : ratios[i + 1] >= minZoomRatio

HasListenerOn(r, w) == \E l \in receivers[r].listeners : l.win = w

\* C2: every zoomIn/zoomOut dispatches exactly one event carrying the ratio
\* before and after the call; every receiver registered on the controller's
\* window has its callback invoked exactly once with these values and its
\* cached getZoomRatio/getPrevZoomRatio values are these; other receivers
\* are untouched.
C2_BroadcastOnce ==
  [][Len(ops') = Len(ops) + 1 =>
      /\ Len(events') = Len(events) + 1
      /\ events'[Len(events')] = [zoomRatio |-> prevZoomRatioRef',
                                  prevZoomRatio |-> prevZoomRatioRef]
      /\ \A r \in Receivers :
           IF HasListenerOn(r, ctrlWindow)
           THEN /\ Len(receivers'[r].calls) = Len(receivers[r].calls) + 1
                /\ receivers'[r].calls[Len(receivers'[r].calls)] =
                     [callback |-> receivers[r].callback,
                      zoomRatio |-> prevZoomRatioRef',
                      prevZoomRatio |-> prevZoomRatioRef]
                /\ receivers'[r].zoomRatioRef = prevZoomRatioRef'
                /\ receivers'[r].prevZoomRatioRef = prevZoomRatioRef
           ELSE receivers'[r] = receivers[r]]_vars

\* two receivers on the controller's window were both called for a zoom that
\* changed the ratio, and a receiver on the other window was not
C2_Witness ==
  /\ Len(events) >= 2
  /\ events[Len(events)].zoomRatio # events[Len(events)].prevZoomRatio
  /\ \E r \in Receivers :
       /\ HasListenerOn(r, ctrlWindow)
       /\ Len(receivers[r].calls) >= 1
       /\ receivers[r].zoomRatioRef = prevZoomRatioRef
       /\ receivers[r].prevZoomRatioRef = events[Len(events)].prevZoomRatio
  /\ \E r \in Receivers :
       /\ receivers[r].listeners # {}
       /\ ~HasListenerOn(r, ctrlWindow)
       /\ Len(receivers[r].calls) < Len(events)

(***************************************************************************)
(* Claims about the wheel throttle                                         *)
(***************************************************************************)
\* the wheel events handled by the same handleWheel before event k that
\* caused a zoom call
ZoomsAfter(k) ==
  IF k < Len(wheelLog) THEN wheelLog[k + 1].zoomsBefore ELSE Len(ops)
AcceptedBefore(k) ==
  {j \in 1..(k - 1) :
     /\ wheelLog[j].handler = wheelLog[k].handler
     /\ ZoomsAfter(j) = wheelLog[j].zoomsBefore + 1}
LastAccepted(k) ==
  CHOOSE j \in AcceptedBefore(k) : \A m \in AcceptedBefore(k) : m <= j

\* C3: a wheel event handled by handleWheel triggers a zoom call iff at
\* least 150 ms have passed since the last event that handleWheel accepted
\* (its first event is accepted); zoom calls happen only then, one per
\* accepted event, so a rejected event never causes a zoom later.
C3_WheelThrottle ==
  /\ \A k \in 1..Len(wheelLog) :
       ZoomsAfter(k) - wheelLog[k].zoomsBefore =
         IF \/ AcceptedBefore(k) = {}
            \/ wheelLog[k].time - wheelLog[LastAccepted(k)].time >= 150
         THEN 1 ELSE 0
  /\ Len(wheelLog) = 0 => Len(ops) = 0
  /\ Len(wheelLog) > 0 => wheelLog[1].zoomsBefore = 0

SameHandlerPair(j, k, gap) ==
  /\ j < k
  /\ wheelLog[j].handler = wheelLog[k].handler
  /\ wheelLog[k].time - wheelLog[j].time = gap

\* two events 50 ms apart gave one zoom call and two events 200 ms apart
\* gave two
C3_Witness ==
  \E a, b, c \in 1..Len(wheelLog) :
    /\ a = 1 /\ b = 2 /\ c = 3
    /\ SameHandlerPair(a, b, 50)
    /\ SameHandlerPair(a, c, 200)
    /\ Len(wheelLog) = 3
    /\ Len(ops) = 2

(***************************************************************************)
(* C4: a press cancels every pending momentum frame and animated settle of *)
(* the previous gesture, so that no frame of an earlier gesture writes the *)
(* element's transform after the press: every write of a refresh made by a *)
(* gesture's frame happens while that gesture is still the latest one.     *)
(* The code does not have this property.                                   *)
(***************************************************************************)
C4_NoWriteAfterNextPress ==
  \A i \in DOMAIN writes :
    writes[i].src \in {"momentum", "settle"} => writes[i].gid = writes[i].during

(***************************************************************************)
(* C5: with bounds enforcement on, once a gesture is released and every    *)
(* scheduled frame has run, the translation lies within the valid range of *)
(* each axis: 0 <= pos <= viewport - content for content smaller than the  *)
(* viewport, viewport - content <= pos <= 0 otherwise.  The code does not  *)
(* have this property.                                                     *)
(***************************************************************************)
AxisValid(pos, viewport, content) ==
  IF RLt(content, viewport)
  THEN RLe(RInt(0), RInt(pos)) /\ RLe(RInt(pos), RSub(viewport, content))
  ELSE RLe(RSub(viewport, content), RInt(pos)) /\ RLe(RInt(pos), RInt(0))

Settled ==
  /\ viewer.isInBounds
  /\ gestureNo >= 1
  /\ ~swiper.isSwiping
  /\ frames = <<>>

C5_SettledWithinBounds ==
  Settled =>
    /\ AxisValid(el.x, viewerRect.width, targetRect(el).width)
    /\ AxisValid(el.y, viewerRect.height, targetRect(el).height)

(***************************************************************************)
(* C6: a release whose distance along the horizontal axis does not exceed  *)
(* the threshold of 30 px applies no momentum step to the element,         *)
(* whatever force the estimator computed.  The code does not have this     *)
(* property.                                                               *)
(***************************************************************************)
C6_NoMomentumBelowThreshold ==
  (throw.gid # 0 /\ ~throw.overThreshold) => (~throw.momentum /\ throw.steps = 0)

(***************************************************************************)
(* C7: after a throw release that is not immediately out of bounds, the    *)
(* momentum continuation makes one step and the completion callback is     *)
(* invoked exactly once: once the momentum frame has run, the callback has *)
(* been invoked once.  The code does not have this property.               *)
(***************************************************************************)
C7_MomentumCompletes ==
  (throw.overThreshold /\ throw.momentum /\ throw.steps >= 1)
    => (throw.steps = 1 /\ throw.onEnd = 1)

(***************************************************************************)
(* C8: while isDisabled is true the element's transform never changes: no  *)
(* step taken with the prop true before and after it changes scale or      *)
(* translation.  The code does not have this property.                     *)
(***************************************************************************)
C8_DisabledFreezesTransform ==
  [][(viewer.isDisabled /\ viewer'.isDisabled) => el' = el]_vars

(***************************************************************************)
(* C9: every scale an animated call writes into the element's transform is *)
(* at least the floor 0.5, at every tick and at the last, whatever the     *)
(* target scale and the starting scale.                                    *)
(***************************************************************************)
C9_ScaleWritesAtLeastFloor ==
  \A i \in DOMAIN writes :
    writes[i].hasScale => writes[i].scale >= MIN_ZOOM_RATIO

\* C9 witness: the last tick of an animation whose target scale is zero or
\* negative has written the floor
C9_Witness ==
  \E i \in DOMAIN writes :
    /\ writes[i].hasScale
    /\ writes[i].final
    /\ RLe(writes[i].target, RInt(0))
    /\ writes[i].scale = MIN_ZOOM_RATIO

(***************************************************************************)
(* C10: an initialization run by the first attachment or by a viewport     *)
(* resize that finds the content with zero measured size is retried after  *)
(* 200 ms: it leaves a retry timer pending.  The code does not have this   *)
(* property.                                                               *)
(***************************************************************************)
C10_ZeroSizeInitRetried ==
  (inits.trigger \in {"attach", "resize"} /\ inits.ran /\ inits.zero)
    => inits.scheduled

(***************************************************************************)
(* C11: at most one initialization retry timer is pending at any time: a   *)
(* run of initTargetElement started by a resize while a retry timer is     *)
(* pending schedules no second timer.  The code does not have this         *)
(* property.                                                               *)
(***************************************************************************)
C11_AtMostOneRetryTimer == Len(retryTimers) <= 1

(***************************************************************************)
(* C12: a live receiver has exactly one zoom listener, registered on the   *)
(* window currently passed as currentWindow and calling the current        *)
(* callback, and a torn-down receiver has none.  The code does not have    *)
(* this property.                                                          *)
(***************************************************************************)
C12_OneListenerOnCurrentWindow ==
  \A r \in Receivers :
    IF receivers[r].mounted
    THEN receivers[r].listeners =
           {[win |-> receivers[r].currentWindow,
             callback |-> receivers[r].callback]}
    ELSE receivers[r].listeners = {}

(***************************************************************************)
(* C13: the release force is min(7, S), S being the sum of the speeds of   *)
(* every consecutive pair among the last min(10, n) samples, the pair that *)
(* ends in the release sample included, unless the terminal-momentum gate  *)
(* forces it to 0; so 0 <= force <= 7.  The code does not have this        *)
(* property.                                                               *)
(***************************************************************************)
Released == gestureNo >= 1 /\ ~swiper.isSwiping /\ throw.gid = gestureNo

AllPairsSpeed(positions) ==
  speedSum(relevantPositions(positions), 1,
           Len(relevantPositions(positions)) - 1)

C13_ForceIsSumOfAllPairs ==
  Released =>
    /\ RLe(RInt(0), swiper.force)
    /\ RLe(swiper.force, RInt(MAX_FORCE))
    /\ \/ swiper.force = RInt(0)
       \/ swiper.force = RMin(AllPairsSpeed(swiper.positions), RInt(MAX_FORCE))

(***************************************************************************)
(* C14: the release force is forced to 0 exactly when, walking back from   *)
(* the release sample through the last min(10, n) samples, the pair that   *)
(* starts at the press sample included, accumulated displacement nowhere   *)
(* exceeds 10 px while accumulated time is under 100 ms; otherwise the     *)
(* summed force is kept.  The code does not have this property.            *)
(***************************************************************************)
TerminalMomentum(positions) ==
  \E k \in 1..(Min(LAST_POSITION_COUNT, Len(positions)) - 1) :
    /\ lastDisplacement(positions, k) > MIN_DISPLACEMENT
    /\ lastTime(positions, k) < MIN_TOTAL_TIME

C14_ZeroIffNoTerminalMomentum ==
  Released =>
    swiper.force = IF TerminalMomentum(swiper.positions)
                   THEN RMin(summedForce(swiper.positions), RInt(MAX_FORCE))
                   ELSE RInt(0)

(***************************************************************************)
(* C15: the release direction angle is a multiple of 15 in (-180, 180]:    *)
(* -180 is never produced.  The code does not have this property.          *)
(***************************************************************************)
C15_AngleInHalfOpenRange ==
  Released =>
    /\ swiper.directionAngle % ROUND_ANGLE = 0
    /\ -180 < swiper.directionAngle
    /\ swiper.directionAngle <= 180

(***************************************************************************)
(* C16: fit-on-init scales by viewport width / content width when the      *)
(* content's width:height ratio is greater than the viewport's, and by     *)
(* viewport height / content height otherwise.  As stated, with content    *)
(* 2:1 it is width-based for a 1:1 viewport and height-based for a 1:2     *)
(* viewport; the code is width-based for both, 2 being greater than 1/2.   *)
(***************************************************************************)
\* the rectangles the last initTargetElement measured
InitViewerRect == viewerRectIn(viewer)
InitTargetRect == targetRectIn(viewer, inits.shown)
WidthBased ==
  Rat(InitViewerRect.width.n * InitTargetRect.width.d, InitTargetRect.width.n)
HeightBased ==
  Rat(InitViewerRect.height.n * InitTargetRect.height.d,
      InitTargetRect.height.n)
ContentRatioGreater ==
  RLt(RMul(InitViewerRect.width, InitTargetRect.height),
      RMul(InitTargetRect.width, InitViewerRect.height))
FitRan == inits.applied /\ viewer.fitOnInit
ContentTwoToOne == viewer.contentW = 2 * viewer.contentH

\* the rule: width-based exactly when the content is relatively wider
C16_FitChoosesByRatio ==
  FitRan =>
    inits.initScale = IF ContentRatioGreater THEN WidthBased ELSE HeightBased

\* the rule together with the two examples as stated
C16_FitChoiceAsStated ==
  FitRan =>
    /\ inits.initScale = IF ContentRatioGreater THEN WidthBased
                         ELSE HeightBased
    /\ ContentTwoToOne /\ viewer.viewerW = viewer.viewerH
         => inits.initScale = WidthBased
    /\ ContentTwoToOne /\ 2 * viewer.viewerW = viewer.viewerH
         => inits.initScale = HeightBased

\* content 2:1 fitted into a 1:2 viewport by its width, the two candidate
\* scales being different
C16_Witness ==
  /\ FitRan
  /\ ContentTwoToOne
  /\ 2 * viewer.viewerW = viewer.viewerH
  /\ inits.initScale = WidthBased
  /\ WidthBased # HeightBased

(***************************************************************************)
(* C17: once initialization with fitOnInit has completed on measurable     *)
(* content, the content at the applied scale fits into the viewport with   *)
(* its aspect ratio: its width and height are at most the viewport's, with *)
(* equality on one axis, for every content and viewport size; and the      *)
(* ratio reported to onInit is the scale that was applied.  The code does  *)
(* not have this property.                                                 *)
(***************************************************************************)
FitCompleted == FitRan /\ frames = <<>>

C17_FittedContentFitsViewport ==
  FitCompleted =>
    /\ RLe(targetRect(el).width, viewerRect.width)
    /\ RLe(targetRect(el).height, viewerRect.height)
    /\ \/ targetRect(el).width = viewerRect.width
       \/ targetRect(el).height = viewerRect.height
    /\ \A i \in DOMAIN inits.onInit : inits.onInit[i] = RInt(el.scale)

(***************************************************************************)
(* C18: an animated call with duration 0 applies its target and finishes   *)
(* synchronously: when the onInit callback runs and the opacity-0 class is *)
(* removed, the element's transform already holds the target of the        *)
(* duration-0 call that initialization made.  The code does not have this  *)
(* property.                                                               *)
(***************************************************************************)
\* the transform the last duration-0 call of initialization is to leave
InitTarget ==
  animateTick(inits.shown, inits.requested[Len(inits.requested)])

C18_DurationZeroIsSynchronous ==
  inits.applied /\ inits.requested # <<>> => inits.shown = InitTarget

(***************************************************************************)
(* C19: a transform write never disturbs a component it is not animating:  *)
(* a step whose writes are all translation-only, immediate or animated,    *)
(* leaves the element's scale unchanged, and a step whose writes all come  *)
(* from the scale-only call of fit-without-center initialization leaves    *)
(* the element's translation unchanged.  The code does not have this       *)
(* property.                                                               *)
(***************************************************************************)
TranslationOnlyStep ==
  writes' # <<>> /\ \A i \in DOMAIN writes' : ~writes'[i].hasScale
ScaleOnlyStep ==
  /\ writes' # <<>>
  /\ \A i \in DOMAIN writes' : writes'[i].src = "init" /\ writes'[i].hasScale
  /\ ~viewer.centerOnInit

C19_WriteKeepsOtherComponent ==
  [][/\ TranslationOnlyStep => el'.scale = el.scale
     /\ ScaleOnlyStep => el'.x = el.x /\ el'.y = el.y]_vars

(***************************************************************************)
(* C20: in every reachable state of the motion record the positions list   *)
(* is non-empty and non-decreasing in timestamp, event timestamps being    *)
(* non-decreasing, and the record's start (startX, startY, startTimeStamp) *)
(* is the first entry of positions.                                        *)
(***************************************************************************)
C20_MotionRecordInvariant ==
  /\ swiper.positions # <<>>
  /\ \A i \in 1..(Len(swiper.positions) - 1) :
       swiper.positions[i].timeStamp <= swiper.positions[i + 1].timeStamp
  /\ swiper.positions[1] = [x |-> swiper.startX, y |-> swiper.startY,
                            timeStamp |-> swiper.startTimeStamp]

\* a second gesture, pressed after the samples of the first, has recorded
\* its press, a move and its release
C20_Witness ==
  /\ gestureNo >= 2
  /\ ~swiper.isSwiping
  /\ Len(swiper.positions) >= 3
  /\ swiper.startTimeStamp > 0

(***************************************************************************)
(* C21: a move notification that arrives with no active gesture, before    *)
(* any start or after the end of the latest gesture, is ignored: it        *)
(* appends no sample, changes no field of the motion record and invokes no *)
(* move callback.                                                          *)
(***************************************************************************)
\* the fields of SwiperMatrix
MotionRecord(sw) ==
  [startX |-> sw.startX, startY |-> sw.startY,
   startTimeStamp |-> sw.startTimeStamp,
   distanceX |-> sw.distanceX, distanceY |-> sw.distanceY,
   direction |-> sw.direction, positions |-> sw.positions,
   force |-> sw.force, directionAngle |-> sw.directionAngle]
PanWrites(ws) == SelectSeq(ws, LAMBDA w : w.src = "pan")

C21_IdleMoveIgnored ==
  [][(swiper'.event = "move" /\ ~swiper.active)
       => /\ MotionRecord(swiper') = MotionRecord(swiper)
          /\ swiper'.moveCalls = 0
          /\ PanWrites(writes') = <<>>]_vars

\* a move has arrived after the end of a gesture that had recorded moves
C21_Witness ==
  /\ swiper.event = "move"
  /\ ~swiper.active
  /\ gestureNo >= 1
  /\ Len(swiper.positions) >= 3
  /\ swiper.moveCalls = 0

(***************************************************************************)
(* C22: with bounds enforcement enabled, for every candidate position,     *)
(* viewport size, content size and inset >= 0 the bounds resolver follows  *)
(* the per-axis policy: on an axis where content is smaller than the       *)
(* viewport the corrected value is the candidate clamped to                *)
(* [0, viewport - content]; where it is at least as large it is 0 if       *)
(* candidate > inset, viewport - content if candidate + content <          *)
(* viewport - inset, else the candidate; and wasClamped is true exactly    *)
(* when the corrected value of some axis differs from the candidate.       *)
(***************************************************************************)
AxisPolicy(c, size, extent, inset) ==
  IF RLt(size, extent)
  THEN RMax(RInt(0), RMin(c, RSub(extent, size)))
  ELSE IF RLt(inset, c) THEN RInt(0)
  ELSE IF RLt(RAdd(c, size), RSub(extent, inset)) THEN RSub(extent, size)
  ELSE c
\* the resolver's answer r to the candidate (x, y) follows the policy
FollowsPolicy(r, x, y, width, height, inset) ==
  /\ r.nextX = AxisPolicy(x, width, viewerRect.width, inset)
  /\ r.nextY = AxisPolicy(y, height, viewerRect.height, inset)
  /\ r.isOverBounds = (r.nextX # x \/ r.nextY # y)

C22_ResolverFollowsPolicy ==
  (viewer.attached /\ viewer.isInBounds) =>
    \A inset \in ResolverInsets, z \in ResolverRatios :
      FollowsPolicy(getNextPosition(el, RInt(el.x), RInt(el.y),
                                    RInt(inset), z),
                    RInt(el.x), RInt(el.y),
                    RMul(targetRect(el).width, z),
                    RMul(targetRect(el).height, z), RInt(inset))

\* a release has asked the resolver about content wider than the viewport
\* and less high: the settle animation it requested corrects x and keeps y
C22_Witness ==
  /\ viewer.isInBounds
  /\ RLe(viewerRect.width, targetRect(el).width)
  /\ RLt(targetRect(el).height, viewerRect.height)
  /\ gestureNo >= 1 /\ ~swiper.isSwiping
  /\ frames # <<>>
  /\ Head(frames).src = "settle"
  /\ Head(frames).position.x # RInt(el.x)
  /\ Head(frames).position.y = RInt(el.y)

(***************************************************************************)
(* C23: after a zoom broadcast has been applied and its animation has      *)
(* settled, with bounds enforcement on, the element's translation is       *)
(* within the valid range of each axis for the content at the scale        *)
(* actually applied, the floor included: a zoom-out that would take the    *)
(* scale below the floor leaves it at the floor and the content in bounds. *)
(* The code does not have this property.                                   *)
(***************************************************************************)
ZoomSettled ==
  /\ viewer.attached
  /\ viewer.isInBounds
  /\ frames = <<>>
  /\ writes # <<>>
  /\ writes[Len(writes)].src = "zoom"
  /\ writes[Len(writes)].final

C23_ZoomSettlesInBounds ==
  ZoomSettled =>
    /\ AxisValid(el.x, viewerRect.width, targetRect(el).width)
    /\ AxisValid(el.y, viewerRect.height, targetRect(el).height)

(***************************************************************************)
(* C24: if zoom broadcasts with deltas d1..dk are delivered to a viewer    *)
(* whose scale is s0 and no floor clamping applies, then once all          *)
(* animation frames have run the viewer's scale is s0 + d1 + ... + dk, for *)
(* every interleaving of deliveries with animation frames, a broadcast     *)
(* delivered while the previous animation is in flight included.  The code *)
(* does not have this property.                                            *)
(***************************************************************************)
C24_ScaleIsSumOfDeltas ==
  (zoomNo >= 1 /\ zoomed.exact /\ frames = <<>>)
    => el.scale = zoomed.expected


\* the wheel events of the controller before event k, whichever render's
\* handleWheel handled them, that caused a zoom call
AcceptedBeforeAnyRender(k) ==
  {j \in 1..(k - 1) : ZoomsAfter(j) = wheelLog[j].zoomsBefore + 1}
LastAcceptedAnyRender(k) ==
  CHOOSE j \in AcceptedBeforeAnyRender(k) :
    \A m \in AcceptedBeforeAnyRender(k) : m <= j

\* C25: the rate limiter's last-accepted timestamp is one value for the
\* whole lifetime of the controller: a wheel event causes a zoom call iff at
\* least 150 ms have passed since the last accepted wheel event of the
\* controller, also when the host re-rendered in between and the event is
\* handled by the handleWheel of the new render.
C25_ThrottleSharedAcrossRenders ==
  \A k \in 1..Len(wheelLog) :
    ZoomsAfter(k) - wheelLog[k].zoomsBefore =
      IF \/ AcceptedBeforeAnyRender(k) = {}
         \/ wheelLog[k].time - wheelLog[LastAcceptedAnyRender(k)].time >= 150
      THEN 1 ELSE 0


LatestSample(sw) == sw.positions[Len(sw.positions)]
SignAlongX(d) == IF d = 0 THEN "none" ELSE IF d < 0 THEN "left" ELSE "right"

\* C26: in every state of the motion record the distance is the latest
\* recorded sample minus the start on each axis and the direction is the
\* sign of the horizontal distance (none when zero); in particular right
\* after the press of a second gesture the distance is (0, 0) and the
\* direction none, not the values of the previous gesture.
C26_DistanceFollowsSamples ==
  /\ swiper.distanceX = LatestSample(swiper).x - swiper.startX
  /\ swiper.distanceY = LatestSample(swiper).y - swiper.startY
  /\ swiper.direction = SignAlongX(swiper.distanceX)


\* C27: a move event during an active gesture appends exactly one sample
\* and invokes the move callback exactly once, an end event invokes the end
\* callback exactly once and leaves no move/end listener registered, and at
\* most one set of move/end listeners is ever registered, also when a second
\* start arrives before the end of the first.
C27_OneListenerSet ==
  /\ Len(swiper.listeners) <= 1
  /\ (swiper.event = "move" /\ swiper.active) => swiper.moveCalls = 1
  /\ swiper.event = "end" =>
       (swiper.endCalls = 1 /\ swiper.listeners = <<>>)

====
